---- MODULE Spec2Model ----
(***************************************************************************)
(* Model of giskardpy's URDFObject (src/src/giskardpy/urdf_object.py): a   *)
(* kinematic tree kept in a urdf_parser_py Robot, constructed from a       *)
(* document, from parts or from a world body, queried for chains,          *)
(* sub-trees, joint limits and collision geometry, and mutated by          *)
(* attach_urdf_object / detach_sub_tree; and of the command list of        *)
(* GiskardWrapper (src/src/giskardpy/python_interface.py).                 *)
(*                                                                         *)
(* URDFObject delegates its registry to urdf_parser_py (up.Robot).  The    *)
(* operators add_aggregate, remove_aggregate, to_xml_string,               *)
(* from_xml_string, get_chain and get_root follow that library's           *)
(* behaviour at the places where urdf_object.py calls them.                *)
(*                                                                         *)
(* Spec:        a constructed tree under attach, detach and queries        *)
(* SpecObject:  construction and the queries of joint and link attributes  *)
(* SpecWrapper: the calls that build the goal of a GiskardWrapper          *)
(***************************************************************************)
EXTENDS Integers, Sequences, FiniteSets, TLC

VARIABLES
  urdf_robot,   \* self._urdf_robot of the target URDFObject
  last,         \* the call that has just returned: arguments, outcome, tree before it
  welded,       \* the latest successful attach, while no detach has followed it
  pc,           \* "ready", "returned" (a call has returned) or "hung" (a call never returns)
  giskard,      \* the fields of the GiskardWrapper: cmd_seq and collisions
  goal,         \* the MoveGoal the call that has just returned handed out
  entered       \* the collision entries set since the last goal was built

\* the URDFObject and its caller
urdf_vars == <<urdf_robot, last, welded, pc>>

\* the GiskardWrapper and its caller
wrapper_vars == <<giskard, goal, entered>>

vars == <<urdf_robot, last, welded, pc, giskard, goal, entered>>

-----------------------------------------------------------------------------
(* Bounds *)

\* largest number of links plus joints the target tree may hold
MaxAggregates == 6

-----------------------------------------------------------------------------
(* Names *)

\* robot names of the one-link bodies offered to attach
BodyNames == {"box", "arm_link", "j1"}

\* link names of the one-link bodies offered to attach
BodyLinks == {"box", "arm_link"}

-----------------------------------------------------------------------------
(* Registry records: up.Link and up.Joint *)

\* python values held by geometry attributes: a float, or a list of floats.
\* Lengths are whole millimetres.
Float(x) == [list |-> FALSE, items |-> <<x>>]

List(xs) == [list |-> TRUE, items |-> xs]

\* link.collision is None
NoGeometry == [kind |-> "none", args |-> <<>>]

\* up.Box(size), up.Sphere(radius), up.Cylinder(radius, length) and
\* up.Mesh(filename) keep the constructor arguments as they are given
Box(size) == [kind |-> "box", args |-> <<size>>]

Sphere(radius) == [kind |-> "sphere", args |-> <<radius>>]

Cylinder(radius, length) == [kind |-> "cylinder", args |-> <<radius, length>>]

Mesh == [kind |-> "mesh", args |-> <<>>]

\* joint.limit / joint.safety_controller is None
NoLimit == <<>>

\* joint.mimic is None
NoMimic == ""

NoElem ==
  [tag |-> "", name |-> "", type |-> "", parent |-> "", child |-> "",
   collision |-> NoGeometry, mimic |-> NoMimic,
   limit |-> NoLimit, safety_controller |-> NoLimit]

\* up.Link(name, visual, collision) with the geometry of its collision
LinkWith(n, geometry) ==
  [NoElem EXCEPT !.tag = "link", !.name = n, !.collision = geometry]

Link(n) == LinkWith(n, NoGeometry)

\* up.Joint with its mimic, limit (lower, upper) and safety_controller
\* (soft_lower_limit, soft_upper_limit) entries
JointWith(n, t, p, c, mimic, limit, safety_controller) ==
  [NoElem EXCEPT !.tag = "joint", !.name = n, !.type = t, !.parent = p, !.child = c,
                 !.mimic = mimic, !.limit = limit,
                 !.safety_controller = safety_controller]

Joint(n, t, p, c) == JointWith(n, t, p, c, NoMimic, NoLimit, NoLimit)

EmptyMap == [x \in {} |-> NoElem]

\* f with key k bound to v (a python dict assignment d[k] = v)
DictSet(f, k, v) == [x \in (DOMAIN f) \cup {k} |-> IF x = k THEN v ELSE f[x]]

\* up.Robot(name): empty aggregate lists and empty maps
Robot(n) ==
  [name |-> n, aggregate_order |-> <<>>, links |-> <<>>, joints |-> <<>>,
   link_map |-> EmptyMap, joint_map |-> EmptyMap,
   parent_map |-> EmptyMap, child_map |-> EmptyMap]

NoRobot == Robot("")

\* up.Robot.add_aggregate: append to the typed list and to aggregate_order,
\* then update the name maps and the parent/child index (last writer wins)
add_aggregate(r, e) ==
  IF e.tag = "joint"
  THEN [r EXCEPT !.joints = Append(@, e),
                 !.aggregate_order = Append(@, e),
                 !.joint_map = DictSet(@, e.name, e),
                 !.parent_map = DictSet(@, e.child, <<e.name, e.parent>>),
                 !.child_map = IF e.parent \in DOMAIN @
                               THEN [@ EXCEPT ![e.parent] = Append(@, <<e.name, e.child>>)]
                               ELSE DictSet(@, e.parent, << <<e.name, e.child>> >>)]
  ELSE [r EXCEPT !.links = Append(@, e),
                 !.aggregate_order = Append(@, e),
                 !.link_map = DictSet(@, e.name, e)]

add_link(r, l) == add_aggregate(r, l)

add_joint(r, j) == add_aggregate(r, j)

RECURSIVE AddAll(_, _)
\* for x in xs: r.add_aggregate(x)
AddAll(r, xs) == IF xs = <<>> THEN r ELSE AddAll(add_aggregate(r, Head(xs)), Tail(xs))

\* index of the last position of seq holding e, 0 if none
LastIndexOf(seq, e) ==
  IF \E i \in 1..Len(seq) : seq[i] = e
  THEN CHOOSE i \in 1..Len(seq) : seq[i] = e /\ \A k \in (i+1)..Len(seq) : seq[k] # e
  ELSE 0

RemoveAt(seq, i) == SubSeq(seq, 1, i-1) \o SubSeq(seq, i+1, Len(seq))

\* xmlr.Object.remove_aggregate(obj): drops obj from aggregate_order only; the
\* typed lists and the maps keep it.  obj is the object a name map holds,
\* i.e. the one added last under its name.
remove_aggregate(r, obj) ==
  [r EXCEPT !.aggregate_order = RemoveAt(@, LastIndexOf(@, obj))]

-----------------------------------------------------------------------------
(* Serialized form: the lines of the XML document *)

\* one line: its element, whether it holds "<tag" and "</tag", whether the
\* element ends in "/>", its string attributes and its numeric attribute
XmlTag(t, o, c, e, a, b, nums) ==
  [tag |-> t, opens |-> o, closes |-> c, empty |-> e, a |-> a, b |-> b, nums |-> nums]

XmlLine(t, o, c, a, b) == XmlTag(t, o, c, FALSE, a, b, <<>>)

\* an element without children, written <tag .../>
XmlEmpty(t, a, nums) == XmlTag(t, TRUE, FALSE, TRUE, a, "", nums)

\* the lines one aggregate is written as
ElemLines(e) ==
  IF e.tag = "link"
  THEN IF e.collision = NoGeometry
       THEN << XmlEmpty("link", e.name, <<>>) >>
       ELSE << XmlLine("link", TRUE, FALSE, e.name, ""),
               XmlLine("collision", TRUE, FALSE, "", ""),
               XmlEmpty(e.collision.kind, "", e.collision.args),
               XmlLine("collision", FALSE, TRUE, "", ""),
               XmlLine("link", FALSE, TRUE, "", "") >>
  ELSE << XmlLine("joint", TRUE, FALSE, e.name, e.type),
          XmlEmpty("parent", e.parent, <<>>),
          XmlEmpty("child", e.child, <<>>) >>
       \o (IF e.limit = NoLimit THEN <<>> ELSE << XmlEmpty("limit", "", e.limit) >>)
       \o (IF e.safety_controller = NoLimit THEN <<>>
           ELSE << XmlEmpty("safety_controller", "", e.safety_controller) >>)
       \o (IF e.mimic = NoMimic THEN <<>> ELSE << XmlEmpty("mimic", e.mimic, <<>>) >>)
       \o << XmlLine("joint", FALSE, TRUE, "", "") >>

RECURSIVE AggregateLines(_)
AggregateLines(es) == IF es = <<>> THEN <<>> ELSE ElemLines(Head(es)) \o AggregateLines(Tail(es))

\* up.Robot.to_xml_string: the aggregates in aggregate_order inside <robot>
to_xml_string(r) ==
  << XmlLine("robot", TRUE, FALSE, r.name, "") >>
    \o AggregateLines(r.aggregate_order)
    \o << XmlLine("robot", FALSE, TRUE, "", "") >>

GeometryTags == {"box", "sphere", "cylinder", "mesh"}

RECURSIVE ParseLines(_, _, _, _)
\* the elements of the document in order; cur is the link or joint being read
ParseLines(lines, i, r, cur) ==
  IF i > Len(lines) THEN r
  ELSE LET ln == lines[i] IN
    CASE ln.tag = "robot" /\ ln.opens -> ParseLines(lines, i+1, [r EXCEPT !.name = ln.a], cur)
      [] ln.tag = "link" /\ ln.opens /\ ln.empty ->
           ParseLines(lines, i+1, add_aggregate(r, Link(ln.a)), NoElem)
      [] ln.tag = "link" /\ ln.opens /\ ~ln.empty -> ParseLines(lines, i+1, r, Link(ln.a))
      [] ln.tag \in GeometryTags /\ cur.tag = "link" ->
           ParseLines(lines, i+1, r,
                      [cur EXCEPT !.collision = [kind |-> ln.tag, args |-> ln.nums]])
      [] ln.tag = "joint" /\ ln.opens -> ParseLines(lines, i+1, r, Joint(ln.a, ln.b, "", ""))
      [] ln.tag = "parent" -> ParseLines(lines, i+1, r, [cur EXCEPT !.parent = ln.a])
      [] ln.tag = "child" -> ParseLines(lines, i+1, r, [cur EXCEPT !.child = ln.a])
      [] ln.tag = "limit" -> ParseLines(lines, i+1, r, [cur EXCEPT !.limit = ln.nums])
      [] ln.tag = "safety_controller" ->
           ParseLines(lines, i+1, r, [cur EXCEPT !.safety_controller = ln.nums])
      [] ln.tag = "mimic" -> ParseLines(lines, i+1, r, [cur EXCEPT !.mimic = ln.a])
      [] ln.tag \in {"link", "joint"} /\ ln.closes ->
           ParseLines(lines, i+1, add_aggregate(r, cur), NoElem)
      [] OTHER -> ParseLines(lines, i+1, r, cur)

\* up.URDF.from_xml_string: a fresh Robot filled by add_aggregate in document order
from_xml_string(lines) == ParseLines(lines, 1, Robot(""), NoElem)

\* the attributes of a geometry element are written with str() and read back
\* by type: size of a box as three floats, radius and length as float(text),
\* which fails on the text of a list
GeometryReadable(ln) ==
  CASE ln.tag = "box" -> Len(ln.nums) = 1 /\ ln.nums[1].list /\ Len(ln.nums[1].items) = 3
    [] ln.tag \in {"sphere", "cylinder"} -> \A k \in 1..Len(ln.nums) : ~ln.nums[k].list
    [] OTHER -> TRUE

\* every element the document opens is closed: as many lines that only open
\* an element as lines that only close one
WellFormed(lines) ==
  Cardinality({i \in 1..Len(lines) : lines[i].opens /\ ~lines[i].closes /\ ~lines[i].empty})
    = Cardinality({i \in 1..Len(lines) : lines[i].closes /\ ~lines[i].opens})

\* up.URDF.from_xml_string raises ParseError on a document that is not
\* well-formed and on an attribute it cannot read
ParseFails(lines) ==
  \/ ~WellFormed(lines)
  \/ \E i \in 1..Len(lines) : lines[i].tag \in GeometryTags /\ ~GeometryReadable(lines[i])

-----------------------------------------------------------------------------
(* URDFObject: construction *)

black_list == {"transmission", "gazebo"}

RECURSIVE FixLines(_, _, _)
FixLines(lines, i, delete) ==
  IF i > Len(lines) THEN <<>>
  ELSE LET ln == lines[i]
           del1 == IF ln.tag \in black_list /\ ln.opens THEN TRUE ELSE delete
       IN IF ln.tag \in black_list /\ ln.closes
          THEN FixLines(lines, i+1, FALSE)
          ELSE IF ~del1 THEN <<ln>> \o FixLines(lines, i+1, del1)
                        ELSE FixLines(lines, i+1, del1)

\* hacky_urdf_parser_fix: drop the lines of transmission and gazebo sections
hacky_urdf_parser_fix(urdf_str) == FixLines(urdf_str, 1, FALSE)

\* URDFObject.__init__: self._urdf_robot
URDFObject(urdf) == from_xml_string(hacky_urdf_parser_fix(urdf))

\* URDFObject.from_parts
from_parts(robot_name, links, joints) ==
  URDFObject(to_xml_string(AddAll(AddAll(Robot(robot_name), links), joints)))

get_name(r) == r.name

get_link_names(r) == DOMAIN r.link_map

get_joint_names(r) == DOMAIN r.joint_map

-----------------------------------------------------------------------------
(* Results of calls *)

Ok(v) == [status |-> "ok", value |-> v]

Raise(exc) == [status |-> exc, value |-> <<>>]

\* the call never returns
Diverges == [status |-> "diverges", value |-> <<>>]

-----------------------------------------------------------------------------
(* Queries *)

\* up.Robot.get_root, called by URDFObject.get_root
get_root(r) ==
  LET roots == {l \in DOMAIN r.link_map : l \notin DOMAIN r.parent_map}
  IN IF Cardinality(roots) = 1 THEN Ok(CHOOSE l \in roots : TRUE)
     ELSE Raise("AssertionError")

Reverse(s) == [i \in 1..Len(s) |-> s[Len(s) + 1 - i]]

RECURSIVE ChainWalk(_, _, _, _, _, _, _, _)
\* the while loop of up.Robot.get_chain; a walk longer than the number of
\* links that have a parent has entered a cycle and never ends
ChainWalk(r, link, root, joints, links, fixed, chain, steps) ==
  IF link = root THEN Ok(Reverse(chain))
  ELSE IF link \notin DOMAIN r.parent_map THEN Raise("KeyError")
  ELSE IF steps > Cardinality(DOMAIN r.parent_map) THEN Diverges
  ELSE LET joint == r.parent_map[link][1]
           parent == r.parent_map[link][2]
           c1 == IF joints /\ (fixed \/ r.joint_map[joint].type # "fixed")
                 THEN Append(chain, joint) ELSE chain
           c2 == IF links THEN Append(c1, parent) ELSE c1
       IN ChainWalk(r, parent, root, joints, links, fixed, c2, steps + 1)

\* get_chain without the final chain.reverse()
get_chain_unreversed(r, root, tip, joints, links, fixed) ==
  LET res == ChainWalk(r, tip, root, joints, links, fixed, IF links THEN <<tip>> ELSE <<>>, 1)
  IN IF res.status = "ok" THEN Ok(Reverse(res.value)) ELSE res

\* get_chain ending the walk at a link without parent instead of raising
get_chain_stops_at_top(r, root, tip, joints, links, fixed) ==
  LET res == ChainWalk(r, tip, root, joints, links, fixed, IF links THEN <<tip>> ELSE <<>>, 1)
  IN IF res.status = "KeyError" THEN Ok(<<>>) ELSE res

\* up.Robot.get_chain(root, tip, joints, links, fixed)
get_chain(r, root, tip, joints, links, fixed) ==
  ChainWalk(r, tip, root, joints, links, fixed, IF links THEN <<tip>> ELSE <<>>, 1)

get_joint_names_from_chain(r, root_link, tip_link) ==
  get_chain(r, root_link, tip_link, TRUE, FALSE, TRUE)

get_joint_names_from_chain_controllable(r, root_link, tip_link) ==
  get_chain(r, root_link, tip_link, TRUE, FALSE, FALSE)

get_link_names_from_chain(r, root_link, tip_link) ==
  get_chain(r, root_link, tip_link, FALSE, TRUE, FALSE)

\* the joints get_sub_tree_at_joint puts on its work list after joint
SubTreeSucc(r, joint) ==
  IF joint \in DOMAIN r.joint_map /\ r.joint_map[joint].child \in DOMAIN r.child_map
  THEN LET es == r.child_map[r.joint_map[joint].child] IN {es[k][1] : k \in 1..Len(es)}
  ELSE {}

RECURSIVE SubTreeClosure(_, _)
SubTreeClosure(r, S) ==
  LET T == S \cup UNION {SubTreeSucc(r, j) : j \in S}
  IN IF T = S THEN S ELSE SubTreeClosure(r, T)

\* the work list of get_sub_tree_at_joint grows for ever iff it reaches a
\* joint that leads back to itself
SubTreeLoops(r, joint_name) ==
  \E x \in SubTreeClosure(r, {joint_name}) : x \in SubTreeClosure(r, SubTreeSucc(r, x))

\* a joint on the work list whose lookup raises KeyError
SubTreeKeyError(r, joint_name) ==
  \E x \in SubTreeClosure(r, {joint_name}) :
     \/ x \notin DOMAIN r.joint_map
     \/ r.joint_map[x].child \notin DOMAIN r.link_map

RECURSIVE SubTreeWalk(_, _, _, _, _)
\* the for loop of get_sub_tree_at_joint over the growing list joints
SubTreeWalk(r, joints, i, tree_links, tree_joints) ==
  IF i > Len(joints) THEN [links |-> tree_links, joints |-> tree_joints]
  ELSE LET child_link == r.joint_map[joints[i]].child
           es == IF child_link \in DOMAIN r.child_map THEN r.child_map[child_link] ELSE <<>>
       IN SubTreeWalk(r,
                      joints \o [k \in 1..Len(es) |-> es[k][1]],
                      i + 1,
                      Append(tree_links, r.link_map[child_link]),
                      tree_joints \o [k \in 1..Len(es) |-> r.joint_map[es[k][1]]])

\* get_sub_tree_at_joint with joint_name itself among the joints of the result
get_sub_tree_at_joint_with_joint(r, joint_name) ==
  IF SubTreeKeyError(r, joint_name) THEN Raise("KeyError")
  ELSE IF SubTreeLoops(r, joint_name) THEN Diverges
  ELSE LET w == SubTreeWalk(r, <<joint_name>>, 1, <<>>, <<r.joint_map[joint_name]>>)
       IN Ok(from_parts(joint_name, w.links, w.joints))

\* URDFObject.get_sub_tree_at_joint
get_sub_tree_at_joint(r, joint_name) ==
  IF SubTreeKeyError(r, joint_name) THEN Raise("KeyError")
  ELSE IF SubTreeLoops(r, joint_name) THEN Diverges
  ELSE LET w == SubTreeWalk(r, <<joint_name>>, 1, <<>>, <<>>)
       IN Ok(from_parts(joint_name, w.links, w.joints))

-----------------------------------------------------------------------------
(* Mutation *)

\* reinitialize left out: the Robot object is kept as the mutation left it
reinitialize_skipped(r) == r

\* URDFObject.reinitialize: re-parse the serialized registry
reinitialize(r) == from_xml_string(to_xml_string(r))

robot_name_to_root_joint(name) == name

\* the joint attach_urdf_object builds to weld urdf_object under parent_link
AttachJoint(urdf_object, parent_link, root) ==
  Joint(robot_name_to_root_joint(get_name(urdf_object)), "fixed", parent_link, root)

\* the precondition checks of attach_urdf_object, in the order of the code
AttachCheck(self, urdf_object, parent_link) ==
  IF get_name(urdf_object) \in get_link_names(self) THEN "DuplicateNameException"
  ELSE IF get_name(urdf_object) \in get_joint_names(self) THEN "DuplicateNameException"
  ELSE IF parent_link \notin get_link_names(self) THEN "KeyError"
  ELSE get_root(urdf_object).status

\* attach_urdf_object without the loop that copies the joints of urdf_object
attach_urdf_object_without_joints(self, urdf_object, parent_link) ==
  LET check == AttachCheck(self, urdf_object, parent_link) IN
  IF check # "ok" THEN [status |-> check, robot |-> self]
  ELSE LET joint == AttachJoint(urdf_object, parent_link, get_root(urdf_object).value)
           r1 == add_joint(self, joint)
           r3 == AddAll(r1, urdf_object.links)
       IN [status |-> "ok", robot |-> reinitialize(r3)]

\* URDFObject.attach_urdf_object for an object distinct from self
attach_urdf_object(self, urdf_object, parent_link) ==
  LET check == AttachCheck(self, urdf_object, parent_link) IN
  IF check # "ok" THEN [status |-> check, robot |-> self]
  ELSE LET joint == AttachJoint(urdf_object, parent_link, get_root(urdf_object).value)
           r1 == add_joint(self, joint)
           r2 == AddAll(r1, urdf_object.joints)
           r3 == AddAll(r2, urdf_object.links)
       IN [status |-> "ok", robot |-> reinitialize(r3)]

\* a set of names as a list, in some iteration order of the dict
RECURSIVE KeyList(_)
KeyList(S) == IF S = {} THEN <<>>
              ELSE LET x == CHOOSE y \in S : TRUE IN <<x>> \o KeyList(S \ {x})

RECURSIVE RemoveLinks(_, _)
\* for link in names: remove_aggregate(self.get_urdf_link(link))
RemoveLinks(r, names) ==
  IF names = <<>> THEN r
  ELSE RemoveLinks(remove_aggregate(r, r.link_map[Head(names)]), Tail(names))

RECURSIVE RemoveJoints(_, _)
\* for joint in names: remove_aggregate(self.get_urdf_joint(joint))
RemoveJoints(r, names) ==
  IF names = <<>> THEN r
  ELSE RemoveJoints(remove_aggregate(r, r.joint_map[Head(names)]), Tail(names))

\* detach_sub_tree removing the joints of the sub-tree but not joint_name itself
DetachedJoints_below_only(joint_name, sub_tree) == KeyList(get_joint_names(sub_tree))

\* the joints detach_sub_tree removes: chain([joint_name], sub_tree.get_joint_names())
DetachedJoints(joint_name, sub_tree) == <<joint_name>> \o KeyList(get_joint_names(sub_tree))

\* URDFObject.detach_sub_tree
detach_sub_tree(self, joint_name) ==
  LET sub == get_sub_tree_at_joint(self, joint_name) IN
  IF sub.status # "ok" THEN [status |-> sub.status, robot |-> self]
  ELSE LET r1 == RemoveLinks(self, KeyList(get_link_names(sub.value)))
           r2 == RemoveJoints(r1, DetachedJoints(joint_name, sub.value))
       IN [status |-> "ok", robot |-> reinitialize(r2)]

-----------------------------------------------------------------------------
(* The trees the model works with *)

\* target trees the model starts from, built as URDFObject.from_parts builds them
InitialTrees ==
  { from_parts("robot", <<Link("base_link")>>, <<>>),
    from_parts("box", <<Link("box")>>, <<>>),
    from_parts("robot", <<Link("base_link"), Link("arm_link")>>,
               <<Joint("j1", "revolute", "base_link", "arm_link")>>),
    from_parts("robot",
               <<Link("base_link"), Link("arm_link"), Link("hand_link"), Link("tool_link")>>,
               <<Joint("j1", "revolute", "base_link", "arm_link"),
                 Joint("j2", "fixed", "arm_link", "hand_link"),
                 Joint("j3", "prismatic", "hand_link", "tool_link")>>),
    from_parts("robot", <<Link("base_link"), Link("arm_link"), Link("hand_link")>>,
               <<Joint("j1", "fixed", "base_link", "arm_link"),
                 Joint("j2", "prismatic", "base_link", "hand_link")>>) }

\* objects offered to attach: one-link bodies (from_world_body gives the link
\* the name of the body) and two-link trees, with names that are new to the
\* target and names the target already uses
OtherTrees ==
  { from_parts(n, <<Link(l)>>, <<>>) : n \in BodyNames, l \in BodyLinks }
  \cup
  { from_parts("cup", <<Link("cup"), Link("lid")>>,
               <<Joint("hinge", "revolute", "cup", "lid")>>),
    from_parts("hinge", <<Link("cup"), Link("lid")>>,
               <<Joint("hinge", "revolute", "cup", "lid")>>),
    from_parts("cup", <<Link("cup"), Link("arm_link")>>,
               <<Joint("hinge", "revolute", "cup", "arm_link")>>),
    from_parts("cup", <<Link("cup"), Link("base_link")>>,
               <<Joint("j1", "revolute", "cup", "base_link")>>) }

\* a link name no tree has
NoSuchLink == "nowhere"

\* a joint name no tree has
NoSuchJoint == "nothing"

-----------------------------------------------------------------------------
(* Calls *)

NoCall ==
  [op |-> "none", status |-> "", value |-> <<>>, name |-> "", parent_link |-> "",
   root_link |-> "", tip_link |-> "", other |-> NoRobot, pre |-> NoRobot,
   before_attach |-> NoRobot, attached |-> NoRobot, arg |-> <<>>]

NoWeld == [other |-> NoRobot, pre |-> NoRobot]

\* no GiskardWrapper has been constructed
NoWrapper == [cmd_seq |-> <<>>, collisions |-> <<>>]

\* no goal has been handed out
NoGoal == [cmd_seq |-> <<>>, type |-> ""]

\* where control is once a call with this outcome is over
After(status) == IF status = "diverges" THEN "hung" ELSE "returned"

Init ==
  /\ urdf_robot \in InitialTrees
  /\ last = NoCall
  /\ welded = NoWeld
  /\ pc = "ready"
  /\ giskard = NoWrapper
  /\ goal = NoGoal
  /\ entered = {}

\* self.attach_urdf_object(urdf_object, parent_link, pose), urdf_object not self
Attach(urdf_object, parent_link) ==
  /\ pc = "ready"
  /\ Len(urdf_robot.aggregate_order) + Len(urdf_object.aggregate_order) + 1 <= MaxAggregates
  /\ LET res == attach_urdf_object(urdf_robot, urdf_object, parent_link) IN
       /\ urdf_robot' = res.robot
       /\ last' = [NoCall EXCEPT !.op = "attach", !.status = res.status,
                                 !.name = get_name(urdf_object),
                                 !.parent_link = parent_link,
                                 !.other = urdf_object, !.pre = urdf_robot]
       /\ welded' = IF res.status = "ok"
                    THEN [other |-> urdf_object, pre |-> urdf_robot]
                    ELSE welded
       /\ pc' = After(res.status)

\* self.attach_urdf_object(self, parent_link, pose): past the checks the loop
\* "for j in urdf_object._urdf_robot.joints: self._urdf_robot.add_joint(j)"
\* appends to the list it iterates and never ends
AttachSelf(parent_link) ==
  /\ pc = "ready"
  /\ LET check == AttachCheck(urdf_robot, urdf_robot, parent_link)
         status == IF check = "ok" THEN "diverges" ELSE check
     IN
       /\ last' = [NoCall EXCEPT !.op = "attach_self", !.status = status,
                                 !.name = get_name(urdf_robot),
                                 !.parent_link = parent_link,
                                 !.other = urdf_robot, !.pre = urdf_robot]
       /\ pc' = After(status)
  /\ UNCHANGED <<urdf_robot, welded>>

\* self.detach_sub_tree(joint_name)
Detach(joint_name) ==
  /\ pc = "ready"
  /\ LET res == detach_sub_tree(urdf_robot, joint_name) IN
       /\ urdf_robot' = res.robot
       /\ last' = [NoCall EXCEPT !.op = "detach", !.status = res.status,
                                 !.name = joint_name, !.pre = urdf_robot,
                                 !.before_attach = welded.pre,
                                 !.attached = welded.other]
       /\ welded' = IF res.status = "ok" THEN NoWeld ELSE welded
       /\ pc' = After(res.status)

\* a chain query: the tree is left alone and the caller gets res
ChainCall(op, res, root_link, tip_link) ==
  /\ pc = "ready"
  /\ last' = [NoCall EXCEPT !.op = op, !.status = res.status, !.value = res.value,
                            !.root_link = root_link, !.tip_link = tip_link,
                            !.pre = urdf_robot]
  /\ pc' = After(res.status)
  /\ UNCHANGED <<urdf_robot, welded>>

GetJointNamesFromChain(root_link, tip_link) ==
  ChainCall("get_joint_names_from_chain",
            get_joint_names_from_chain(urdf_robot, root_link, tip_link),
            root_link, tip_link)

GetJointNamesFromChainControllable(root_link, tip_link) ==
  ChainCall("get_joint_names_from_chain_controllable",
            get_joint_names_from_chain_controllable(urdf_robot, root_link, tip_link),
            root_link, tip_link)

GetLinkNamesFromChain(root_link, tip_link) ==
  ChainCall("get_link_names_from_chain",
            get_link_names_from_chain(urdf_robot, root_link, tip_link),
            root_link, tip_link)

\* self.get_sub_tree_at_joint(joint_name): the tree is left alone and the
\* caller gets a new URDFObject, whose _urdf_robot is the value
GetSubTreeAtJoint(joint_name) ==
  /\ pc = "ready"
  /\ LET res == get_sub_tree_at_joint(urdf_robot, joint_name) IN
       /\ last' = [NoCall EXCEPT !.op = "get_sub_tree_at_joint", !.status = res.status,
                                 !.value = res.value, !.name = joint_name,
                                 !.pre = urdf_robot]
       /\ pc' = After(res.status)
  /\ UNCHANGED <<urdf_robot, welded>>

\* the caller has taken the outcome of the call and goes on to its next call
Continue ==
  /\ pc = "returned"
  /\ pc' = "ready"
  /\ last' = NoCall
  /\ UNCHANGED <<urdf_robot, welded>>

LinkArgs == get_link_names(urdf_robot) \cup {NoSuchLink}

JointArgs == get_joint_names(urdf_robot) \cup {NoSuchJoint}

Next ==
  \/ \E o \in OtherTrees, p \in LinkArgs : Attach(o, p) /\ UNCHANGED wrapper_vars
  \/ \E p \in LinkArgs : AttachSelf(p) /\ UNCHANGED wrapper_vars
  \/ \E j \in JointArgs : Detach(j) /\ UNCHANGED wrapper_vars
  \/ \E j \in JointArgs : GetSubTreeAtJoint(j) /\ UNCHANGED wrapper_vars
  \/ \E r \in LinkArgs, t \in LinkArgs :
       GetJointNamesFromChain(r, t) /\ UNCHANGED wrapper_vars
  \/ \E r \in LinkArgs, t \in LinkArgs :
       GetJointNamesFromChainControllable(r, t) /\ UNCHANGED wrapper_vars
  \/ \E r \in LinkArgs, t \in LinkArgs :
       GetLinkNamesFromChain(r, t) /\ UNCHANGED wrapper_vars
  \/ Continue /\ UNCHANGED wrapper_vars

Spec == Init /\ [][Next]_vars

-----------------------------------------------------------------------------
(* The kinematic tree a registry describes, read off the lists of links and *)
(* joints without the index                                                 *)

SeqRange(q) == {q[i] : i \in 1..Len(q)}

LinkNameSet(r) == {l.name : l \in SeqRange(r.links)}

JointNameSet(r) == {j.name : j \in SeqRange(r.joints)}

JointSet(r) == SeqRange(r.joints)

\* the joints that lead into link l
ParentJoints(r, l) == {i \in 1..Len(r.joints) : r.joints[i].child = l}

\* the links with no joint leading into them
RootLinks(r) == {l \in LinkNameSet(r) : ParentJoints(r, l) = {}}

ChildLinks(r, S) == {j.child : j \in {x \in JointSet(r) : x.parent \in S}}

RECURSIVE Below(_, _)
\* the links of S and every link reachable from them along joints
Below(r, S) ==
  LET T == S \cup ChildLinks(r, S) IN IF T = S THEN S ELSE Below(r, T)

\* l together with its descendants
SubTreeLinks(r, l) == Below(r, {l})

NamesUnique(r) ==
  Len(r.links) + Len(r.joints) = Cardinality(LinkNameSet(r) \cup JointNameSet(r))

SingleRooted(r) ==
  /\ Cardinality(RootLinks(r)) = 1
  /\ \A l \in LinkNameSet(r) \ RootLinks(r) : Cardinality(ParentJoints(r, l)) = 1

Acyclic(r) == \A l \in LinkNameSet(r) : l \notin Below(r, ChildLinks(r, {l}))

ReferencesResolve(r) ==
  \A j \in JointSet(r) : j.parent \in LinkNameSet(r) /\ j.child \in LinkNameSet(r)

\* the structural invariants of a kinematic tree
ValidTree(r) ==
  /\ NamesUnique(r)
  /\ SingleRooted(r)
  /\ Acyclic(r)
  /\ ReferencesResolve(r)

\* the root of a single-rooted tree
RootOf(r) == CHOOSE l \in RootLinks(r) : TRUE

\* every name the tree uses for a link or a joint
NamesOf(r) == LinkNameSet(r) \cup JointNameSet(r)

-----------------------------------------------------------------------------
(* Claims C1 - C4: the preconditions of attach *)

\* the preconditions the specification gives attach: the name of the other
\* tree is new to the target, no link or joint name of the other tree is used
\* by the target, and parent_link is a link of the target
AttachPreconditions(tree, other, parent_link) ==
  /\ get_name(other) \notin NamesOf(tree)
  /\ NamesOf(other) \cap NamesOf(tree) = {}
  /\ parent_link \in LinkNameSet(tree)

\* C1: an attach call that breaks one of the preconditions of attach (name of
\* the other tree already used, any other name shared by the two trees,
\* parent_link not in the tree) leaves the target tree exactly as it was.
C1_AttachAllOrNothing ==
  (last.op = "attach" /\ ~AttachPreconditions(last.pre, last.other, last.parent_link))
    => urdf_robot = last.pre

\* C2: in every tree reached by construction and by attach and detach calls no
\* name occurs twice among the link names and joint names taken together.
C2_NamesUnique == NamesUnique(urdf_robot)

\* C3: in every tree reached by construction and by attach and detach calls
\* exactly one link has no parent joint and every other link has exactly one.
C3_SingleRooted == SingleRooted(urdf_robot)

\* C4: attach fails with DuplicateName whenever a link name, a joint name or
\* the name of the other tree is already a link name or joint name of the
\* target tree.
C4_DuplicateNameRaised ==
  (last.op = "attach"
     /\ (NamesOf(last.other) \cup {get_name(last.other)}) \cap NamesOf(last.pre) # {})
    => last.status = "DuplicateNameException"

-----------------------------------------------------------------------------
(* Claims C5 - C8: the effect of attach and detach *)

\* C5: a successful attach leaves the tree with the links of the old tree and
\* of the other tree, and with the joints of the old tree, the joints of the
\* other tree and one new joint: fixed, named as the other tree, from
\* parent_link to the root link of the other tree.
C5_AttachEffect ==
  (last.op = "attach" /\ last.status = "ok") =>
    /\ LinkNameSet(urdf_robot) = LinkNameSet(last.pre) \cup LinkNameSet(last.other)
    /\ JointSet(urdf_robot) =
         JointSet(last.pre) \cup JointSet(last.other)
           \cup {Joint(get_name(last.other), "fixed", last.parent_link, RootOf(last.other))}

\* a successful attach of a tree that has a joint of its own
C5_Witness ==
  /\ last.op = "attach" /\ last.status = "ok"
  /\ Len(last.other.joints) > 0

\* C6: for a valid tree and a valid other tree that meets the preconditions of
\* attach, attaching the other tree and then detaching the joint named as the
\* other tree gives back the link names and joint names the tree had.
C6_AttachDetachInverse ==
  (/\ last.op = "detach" /\ last.status = "ok"
   /\ last.attached # NoRobot
   /\ last.name = get_name(last.attached)
   /\ ValidTree(last.before_attach)
   /\ ValidTree(last.attached)
   /\ get_name(last.attached) \notin NamesOf(last.before_attach)
   /\ NamesOf(last.attached) \cap NamesOf(last.before_attach) = {})
    => /\ LinkNameSet(urdf_robot) = LinkNameSet(last.before_attach)
       /\ JointNameSet(urdf_robot) = JointNameSet(last.before_attach)

\* the joint of tree r named n
JointNamed(r, n) == CHOOSE j \in JointSet(r) : j.name = n

\* the joints detaching joint j takes out of tree r: j and the joints below
JointsFrom(r, j) == {j} \cup {x \in JointSet(r) : x.parent \in SubTreeLinks(r, j.child)}

\* C7: a successful detach of a joint of a valid tree removes the joint, its
\* child link and every link and joint below that link, and leaves every other
\* link and joint, the root and the name of the tree as they were.
C7_DetachEffect ==
  (last.op = "detach" /\ last.status = "ok" /\ ValidTree(last.pre)) =>
    LET joint == JointNamed(last.pre, last.name) IN
    /\ LinkNameSet(urdf_robot) = LinkNameSet(last.pre) \ SubTreeLinks(last.pre, joint.child)
    /\ JointSet(urdf_robot) = JointSet(last.pre) \ JointsFrom(last.pre, joint)
    /\ Len(urdf_robot.links) = Cardinality(LinkNameSet(urdf_robot))
    /\ Len(urdf_robot.joints) = Cardinality(JointSet(urdf_robot))
    /\ RootLinks(urdf_robot) = RootLinks(last.pre)
    /\ get_name(urdf_robot) = get_name(last.pre)

\* a successful detach that took a joint with a sub-tree below it out of a
\* valid tree and left a joint behind
C7_Witness ==
  /\ last.op = "detach" /\ last.status = "ok" /\ ValidTree(last.pre)
  /\ Len(last.pre.joints) >= Len(urdf_robot.joints) + 2
  /\ Len(urdf_robot.joints) >= 1

IsJoint(e) == e.tag = "joint"

\* the joints of the committed registry, in the order they are serialized
RegistryJoints(r) == SelectSeq(r.aggregate_order, IsJoint)

\* parent joint of each link, built from the registry alone
ParentIndex(r) ==
  LET js == RegistryJoints(r) IN
  [l \in {js[i].child : i \in 1..Len(js)} |->
     LET i == CHOOSE k \in 1..Len(js) :
                js[k].child = l /\ \A m \in (k+1)..Len(js) : js[m].child # l
     IN <<js[i].name, js[i].parent>>]

\* child joints of each link, built from the registry alone
ChildIndex(r) ==
  LET js == RegistryJoints(r) IN
  [p \in {js[i].parent : i \in 1..Len(js)} |->
     LET from_p(e) == e.parent = p
         cs == SelectSeq(js, from_p)
     IN [k \in 1..Len(cs) |-> <<cs[k].name, cs[k].child>>]]

\* C8: when a successful attach or detach has returned, the index (parent
\* joint of each link, child joints of each link) is the index built from
\* scratch from the committed registry.
C8_IndexRebuilt ==
  (last.op \in {"attach", "detach"} /\ last.status = "ok") =>
    /\ urdf_robot.parent_map = ParentIndex(urdf_robot)
    /\ urdf_robot.child_map = ChildIndex(urdf_robot)

\* a successful detach after which the tree still has joints to index
C8_Witness ==
  /\ last.op = "detach" /\ last.status = "ok"
  /\ Len(urdf_robot.joints) < Len(last.pre.joints)
  /\ DOMAIN urdf_robot.parent_map # {}

-----------------------------------------------------------------------------
(* Claims C9 - C10: chains *)

ChainOps ==
  {"get_joint_names_from_chain", "get_joint_names_from_chain_controllable",
   "get_link_names_from_chain"}

\* the flags include_joints, include_links, include_fixed of each chain query
ChainFlags(op) ==
  CASE op = "get_joint_names_from_chain" -> [joints |-> TRUE, links |-> FALSE, fixed |-> TRUE]
    [] op = "get_joint_names_from_chain_controllable" ->
         [joints |-> TRUE, links |-> FALSE, fixed |-> FALSE]
    [] OTHER -> [joints |-> FALSE, links |-> TRUE, fixed |-> FALSE]

RECURSIVE PathDown(_, _, _)
\* the joints of the path that leads down from link from to its descendant to
PathDown(r, from, to) ==
  IF from = to THEN <<>>
  ELSE LET j == CHOOSE x \in JointSet(r) : x.parent = from /\ to \in SubTreeLinks(r, x.child)
       IN <<j>> \o PathDown(r, j.child, to)

RECURSIVE PathItems(_, _)
\* what a chain lists for the joints of a path under flags f
PathItems(path, f) ==
  IF path = <<>> THEN <<>>
  ELSE LET j == Head(path) IN
       (IF f.joints /\ (f.fixed \/ j.type # "fixed") THEN <<j.name>> ELSE <<>>)
         \o (IF f.links THEN <<j.child>> ELSE <<>>)
         \o PathItems(Tail(path), f)

\* the chain from root_link down to tip_link, root to tip
PathChain(r, root_link, tip_link, f) ==
  (IF f.links THEN <<root_link>> ELSE <<>>) \o PathItems(PathDown(r, root_link, tip_link), f)

\* tip_link is root_link or one of its descendants
Reaches(r, root_link, tip_link) ==
  root_link \in LinkNameSet(r) /\ tip_link \in SubTreeLinks(r, root_link)

C10_NoPathRaises ==
  (last.op \in ChainOps /\ ValidTree(last.pre)
     /\ last.tip_link # last.root_link
     /\ ~Reaches(last.pre, last.root_link, last.tip_link))
    => last.status = "KeyError"

\* a chain query between two links of a valid tree of which neither is below
\* the other
C10_Witness ==
  /\ last.op \in ChainOps /\ last.status = "KeyError" /\ ValidTree(last.pre)
  /\ {last.root_link, last.tip_link} \subseteq LinkNameSet(last.pre)
  /\ ~Reaches(last.pre, last.root_link, last.tip_link)
  /\ ~Reaches(last.pre, last.tip_link, last.root_link)

-----------------------------------------------------------------------------
(* Claim C11: the sub-tree below a joint *)

\* C11: get_sub_tree_at_joint of a joint of a valid tree returns a tree whose
\* root is the child link of the joint, whose links are that link and all its
\* descendants and whose joints are the joints below that link, the joint
\* itself left out; below a leaf the tree has no joints.
C11_SubTreeAtJoint ==
  (last.op = "get_sub_tree_at_joint" /\ ValidTree(last.pre)
     /\ last.name \in JointNameSet(last.pre))
    => LET joint == JointNamed(last.pre, last.name)
           sub == last.value
       IN /\ last.status = "ok"
          /\ get_root(sub) = Ok(joint.child)
          /\ RootLinks(sub) = {joint.child}
          /\ LinkNameSet(sub) = SubTreeLinks(last.pre, joint.child)
          /\ JointSet(sub) = JointsFrom(last.pre, joint) \ {joint}
          /\ Len(sub.links) = Cardinality(LinkNameSet(sub))
          /\ Len(sub.joints) = Cardinality(JointSet(sub))
          /\ (ChildLinks(last.pre, {joint.child}) = {} => sub.joints = <<>>)

\* the sub-tree below a joint whose child link has descendants: two links or
\* more and a joint
C11_Witness ==
  /\ last.op = "get_sub_tree_at_joint" /\ last.status = "ok" /\ ValidTree(last.pre)
  /\ Len(last.value.links) >= 2
  /\ Len(last.value.joints) >= 1

-----------------------------------------------------------------------------
(* URDFObject: construction as a call *)

\* cls(urdf): URDFObject.__init__ as a call that returns the object or
\* raises the ParseError of the parser
cls(urdf) ==
  IF ParseFails(hacky_urdf_parser_fix(urdf)) THEN Raise("ParseError")
  ELSE Ok(URDFObject(urdf))

\* URDFObject.from_parts as a call
cls_from_parts(robot_name, links, joints) ==
  cls(to_xml_string(AddAll(AddAll(Robot(robot_name), links), joints)))

\* giskard_msgs/WorldBody: type, name, shape (type and dimensions) and urdf
WorldBody(type, name, shape_type, dimensions, urdf) ==
  [type |-> type, name |-> name,
   shape |-> [type |-> shape_type, dimensions |-> dimensions], urdf |-> urdf]

\* URDFObject.from_world_body
from_world_body(world_body) ==
  IF world_body.type \in {"PRIMITIVE_BODY", "MESH_BODY"}
  THEN LET shape == world_body.shape
           made == shape.type \in {"BOX", "SPHERE", "CYLINDER"}
                      \/ (shape.type # "CONE" /\ world_body.type = "MESH_BODY")
           geometry ==
             CASE shape.type = "BOX" -> Box(List(shape.dimensions))
               [] shape.type = "SPHERE" -> Sphere(Float(shape.dimensions[1]))
               [] shape.type = "CYLINDER" -> Cylinder(List(shape.dimensions), Float(0))
               [] OTHER -> Mesh
       IN IF made
          THEN cls_from_parts(world_body.name, <<LinkWith(world_body.name, geometry)>>, <<>>)
          ELSE Raise("TypeError")
  ELSE IF world_body.type = "URDF_BODY" THEN cls(world_body.urdf)
  ELSE Raise("TypeError")

-----------------------------------------------------------------------------
(* URDFObject: joint and link attributes *)

MOVABLE_JOINT_TYPES == {"revolute", "continuous", "prismatic"}

Max(a, b) == IF a >= b THEN a ELSE b

Min(a, b) == IF a <= b THEN a ELSE b

\* the pair (None, None)
NonePair == <<>>

\* URDFObject.get_joint_limits: reading an attribute of None raises the
\* AttributeError that sends the call to the next except branch
get_joint_limits(r, joint_names) ==
  IF joint_names \notin DOMAIN r.joint_map THEN Raise("KeyError")
  ELSE LET joint == r.joint_map[joint_names] IN
    IF joint.safety_controller # NoLimit /\ joint.limit # NoLimit
    THEN Ok(<< Max(joint.safety_controller[1], joint.limit[1]),
               Min(joint.safety_controller[2], joint.limit[2]) >>)
    ELSE IF joint.limit # NoLimit THEN Ok(<< joint.limit[1], joint.limit[2] >>)
    ELSE Ok(NonePair)

\* URDFObject.is_joint_controllable
is_joint_controllable(r, name) ==
  IF name \notin DOMAIN r.joint_map THEN Raise("KeyError")
  ELSE LET joint == r.joint_map[name]
       IN Ok(joint.type \in MOVABLE_JOINT_TYPES /\ joint.mimic = NoMimic)

\* numpy.pi as a fraction
PiNum == 355

PiDen == 113

\* a volume in cubic millimetres or a surface in square millimetres
Fraction(n, d) == [num |-> n, den |-> d]

sphere_volume(radius) == Fraction(4 * PiNum * radius * radius * radius, 3 * PiDen)

cube_volume(length, width, height) == Fraction(length * width * height, 1)

cube_surface(length, width, height) ==
  Fraction(2 * (length * width + length * height + width * height), 1)

cylinder_volume(r, h) == Fraction(PiNum * r * r * h, PiDen)

cylinder_surface(r, h) == Fraction(2 * PiNum * r * (h + r), PiDen)

\* x > threshold
Exceeds(x, threshold) == x.num > threshold * x.den

\* the default volume_threshold 1e-6 cubic metres, in cubic millimetres
volume_threshold == 1000

\* the default surface_threshold 1e-4 square metres, in square millimetres
surface_threshold == 100

\* has_link_collision with "and" for the "or" between the two tests of a box
has_link_collision_box_both(r, link_name) ==
  IF link_name \notin DOMAIN r.link_map THEN Raise("KeyError")
  ELSE LET link == r.link_map[link_name]
           geo == link.collision
       IN IF geo # NoGeometry
          THEN Ok(\/ geo.kind = "box"
                       /\ (Exceeds(cube_volume(geo.args[1].items[1], geo.args[1].items[2],
                                               geo.args[1].items[3]), volume_threshold)
                           /\ Exceeds(cube_surface(geo.args[1].items[1], geo.args[1].items[2],
                                                   geo.args[1].items[3]), surface_threshold))
                  \/ geo.kind = "sphere"
                       /\ Exceeds(sphere_volume(geo.args[1].items[1]), volume_threshold)
                  \/ geo.kind = "cylinder"
                       /\ (Exceeds(cylinder_volume(geo.args[1].items[1], geo.args[2].items[1]),
                                   volume_threshold)
                           \/ Exceeds(cylinder_surface(geo.args[1].items[1], geo.args[2].items[1]),
                                      surface_threshold))
                  \/ geo.kind = "mesh")
          ELSE Ok(FALSE)

\* URDFObject.has_link_collision with its default thresholds
has_link_collision(r, link_name) ==
  IF link_name \notin DOMAIN r.link_map THEN Raise("KeyError")
  ELSE LET link == r.link_map[link_name]
           geo == link.collision
       IN IF geo # NoGeometry
          THEN Ok(\/ geo.kind = "box"
                       /\ (Exceeds(cube_volume(geo.args[1].items[1], geo.args[1].items[2],
                                               geo.args[1].items[3]), volume_threshold)
                           \/ Exceeds(cube_surface(geo.args[1].items[1], geo.args[1].items[2],
                                                   geo.args[1].items[3]), surface_threshold))
                  \/ geo.kind = "sphere"
                       /\ Exceeds(sphere_volume(geo.args[1].items[1]), volume_threshold)
                  \/ geo.kind = "cylinder"
                       /\ (Exceeds(cylinder_volume(geo.args[1].items[1], geo.args[2].items[1]),
                                   volume_threshold)
                           \/ Exceeds(cylinder_surface(geo.args[1].items[1], geo.args[2].items[1]),
                                      surface_threshold))
                  \/ geo.kind = "mesh")
          ELSE Ok(FALSE)

-----------------------------------------------------------------------------
(* URDFObject: the inputs of construction *)

\* largest number of elements and sections between <robot> and </robot> in a
\* document given to URDFObject(urdf)
MaxSegments == 2

\* what a document is made of: links, a joint, and transmission and gazebo
\* elements in the forms they are written in: a section with lines of its
\* own, an element without children (<gazebo .../>), and an element that
\* opens and closes on one line
Segments ==
  { << XmlEmpty("link", "base_link", <<>>) >>,
    << XmlEmpty("link", "arm_link", <<>>) >>,
    << XmlLine("joint", TRUE, FALSE, "j1", "revolute"),
       XmlEmpty("parent", "base_link", <<>>),
       XmlEmpty("child", "arm_link", <<>>),
       XmlLine("joint", FALSE, TRUE, "", "") >>,
    << XmlLine("gazebo", TRUE, FALSE, "base_link", ""),
       XmlEmpty("link", "sensor_link", <<>>),
       XmlLine("gazebo", FALSE, TRUE, "", "") >>,
    << XmlLine("transmission", TRUE, FALSE, "t1", ""),
       XmlEmpty("joint", "j1", <<>>),
       XmlLine("transmission", FALSE, TRUE, "", "") >>,
    << XmlEmpty("gazebo", "base_link", <<>>) >>,
    << XmlTag("transmission", TRUE, TRUE, FALSE, "t1", "", <<>>) >> }

RECURSIVE Flatten(_)
Flatten(segs) == IF segs = <<>> THEN <<>> ELSE Head(segs) \o Flatten(Tail(segs))

\* the documents URDFObject(urdf) is called with
Documents ==
  { << XmlLine("robot", TRUE, FALSE, "robot", "") >> \o Flatten(segs)
      \o << XmlLine("robot", FALSE, TRUE, "", "") >> :
    segs \in UNION { [1..n -> Segments] : n \in 0..MaxSegments } }

\* the edge lengths of boxes, in millimetres
BoxEdges == {1, 5, 1000}

BoxSizes == { <<x, y, z>> : x \in BoxEdges, y \in BoxEdges, z \in BoxEdges }

\* the radii of spheres, in millimetres
SphereRadii == {1, 6, 7}

\* radius and length of cylinders, in millimetres
CylinderSizes == { <<1, 1>>, <<1, 100>>, <<5, 1>>, <<5, 100>> }

\* the collision geometries of links
Geometries ==
  { Box(List(s)) : s \in BoxSizes }
    \cup { Sphere(Float(x)) : x \in SphereRadii }
    \cup { Cylinder(Float(s[1]), Float(s[2])) : s \in CylinderSizes }
    \cup { Mesh, NoGeometry }

Parts(robot_name, links, joints) ==
  [robot_name |-> robot_name, links |-> links, joints |-> joints]

\* the records URDFObject.from_parts is called with: one-link objects of
\* every geometry, an arm whose joints carry limits, safety controllers and a
\* mimic entry, and records that are no tree: a name used twice, a joint to
\* a link that is not there, two roots, and a cycle (no root)
PartsInputs ==
  { Parts("object", <<LinkWith("object", g)>>, <<>>) : g \in Geometries }
  \cup
  { Parts("arm",
          <<Link("base_link"), Link("l1"), Link("l2"), Link("l3"), Link("l4"), Link("l5")>>,
          <<JointWith("j1", "revolute", "base_link", "l1", NoMimic, <<-10, 10>>, <<-5, 8>>),
            JointWith("j2", "continuous", "l1", "l2", NoMimic, <<0, 0>>, NoLimit),
            JointWith("j3", "revolute", "l2", "l3", "j1", <<-10, 10>>, NoLimit),
            JointWith("j4", "fixed", "l3", "l4", NoMimic, NoLimit, NoLimit),
            JointWith("j5", "prismatic", "l4", "l5", NoMimic, <<0, 4>>, <<-1, 9>>)>>),
    Parts("gripper",
          <<Link("palm"), Link("finger"), Link("tip")>>,
          <<JointWith("j1", "fixed", "palm", "finger", NoMimic, <<0, 0>>, NoLimit),
            JointWith("j2", "prismatic", "finger", "tip", NoMimic, NoLimit, <<-1, 1>>)>>),
    Parts("robot", <<Link("base_link"), Link("base_link")>>, <<>>),
    Parts("robot", <<Link("base_link")>>,
          <<Joint("j1", "revolute", "base_link", "arm_link")>>),
    Parts("robot", <<Link("base_link"), Link("arm_link")>>, <<>>),
    Parts("robot", <<Link("base_link"), Link("arm_link")>>,
          <<Joint("j1", "revolute", "base_link", "arm_link"),
            Joint("j2", "revolute", "arm_link", "base_link")>>) }

\* the bodies URDFObject.from_world_body is called with
WorldBodies ==
  { WorldBody("PRIMITIVE_BODY", "box", "BOX", s, <<>>) : s \in {<<1, 1, 1>>, <<1000, 1000, 1000>>} }
  \cup
  { WorldBody("PRIMITIVE_BODY", "ball", "SPHERE", <<7>>, <<>>),
    WorldBody("PRIMITIVE_BODY", "can", "CYLINDER", <<100, 5>>, <<>>),
    WorldBody("PRIMITIVE_BODY", "cone", "CONE", <<100, 5>>, <<>>),
    WorldBody("PRIMITIVE_BODY", "thing", "UNKNOWN", <<>>, <<>>),
    WorldBody("MESH_BODY", "cup", "UNKNOWN", <<>>, <<>>),
    WorldBody("UNKNOWN_BODY", "thing", "BOX", <<1, 1, 1>>, <<>>) }
  \cup
  { WorldBody("URDF_BODY", "", "UNKNOWN", <<>>, d) :
      d \in { x \in Documents : Len(x) = 3 } }

-----------------------------------------------------------------------------
(* URDFObject: construction and attribute queries as calls *)

\* no URDFObject has been constructed
NoObject ==
  /\ urdf_robot = NoRobot
  /\ last = NoCall
  /\ welded = NoWeld
  /\ pc = "ready"
  /\ giskard = NoWrapper
  /\ goal = NoGoal
  /\ entered = {}

\* a constructor has returned res: the caller holds the object, or none
Constructed(op, res, arg) ==
  /\ pc = "ready"
  /\ urdf_robot = NoRobot
  /\ urdf_robot' = IF res.status = "ok" THEN res.value ELSE NoRobot
  /\ last' = [NoCall EXCEPT !.op = op, !.status = res.status, !.arg = arg]
  /\ pc' = After(res.status)
  /\ UNCHANGED welded

\* URDFObject(urdf)
New(urdf) == Constructed("__init__", cls(urdf), urdf)

\* URDFObject.from_parts(robot_name, links, joints)
FromParts(parts) ==
  Constructed("from_parts", cls_from_parts(parts.robot_name, parts.links, parts.joints), parts)

\* URDFObject.from_world_body(world_body)
FromWorldBody(world_body) ==
  Constructed("from_world_body", from_world_body(world_body), world_body)

\* a query of an attribute: the tree is left alone and the caller gets res
AttributeCall(op, res, name) ==
  /\ pc = "ready"
  /\ urdf_robot # NoRobot
  /\ last' = [NoCall EXCEPT !.op = op, !.status = res.status, !.value = res.value,
                            !.name = name, !.pre = urdf_robot]
  /\ pc' = After(res.status)
  /\ UNCHANGED <<urdf_robot, welded>>

GetJointLimits(joint_names) ==
  AttributeCall("get_joint_limits", get_joint_limits(urdf_robot, joint_names), joint_names)

IsJointControllable(name) ==
  AttributeCall("is_joint_controllable", is_joint_controllable(urdf_robot, name), name)

HasLinkCollision(link_name) ==
  AttributeCall("has_link_collision", has_link_collision(urdf_robot, link_name), link_name)

NextObject ==
  \/ \E urdf \in Documents : New(urdf) /\ UNCHANGED wrapper_vars
  \/ \E parts \in PartsInputs : FromParts(parts) /\ UNCHANGED wrapper_vars
  \/ \E world_body \in WorldBodies : FromWorldBody(world_body) /\ UNCHANGED wrapper_vars
  \/ \E j \in JointArgs : GetJointLimits(j) /\ UNCHANGED wrapper_vars
  \/ \E j \in JointArgs : IsJointControllable(j) /\ UNCHANGED wrapper_vars
  \/ \E l \in LinkArgs : HasLinkCollision(l) /\ UNCHANGED wrapper_vars
  \/ \E r \in LinkArgs, t \in LinkArgs :
       /\ urdf_robot # NoRobot
       /\ GetJointNamesFromChainControllable(r, t)
       /\ UNCHANGED wrapper_vars
  \/ Continue /\ UNCHANGED wrapper_vars

SpecObject == NoObject /\ [][NextObject]_vars

-----------------------------------------------------------------------------
(* Claims C12, C13: effective joint limits *)

\* C12: get_joint_limits of a joint that is not fixed returns
\* (max(hard.lower, soft.lower), min(hard.upper, soft.upper)) when the joint has
\* soft limits, its hard limits unchanged when it has none, and no position
\* bound, the pair (None, None), for a continuous joint whatever limits it
\* declares.
C12_EffectiveLimits ==
  (last.op = "get_joint_limits" /\ ValidTree(last.pre)
     /\ last.name \in JointNameSet(last.pre)
     /\ JointNamed(last.pre, last.name).type # "fixed")
    => LET joint == JointNamed(last.pre, last.name)
           hard == joint.limit
           soft == joint.safety_controller
       IN /\ last.status = "ok"
          /\ CASE joint.type = "continuous" -> last.value = NonePair
               [] hard # NoLimit /\ soft # NoLimit ->
                    /\ last.value # NonePair
                    /\ last.value[1] >= hard[1] /\ last.value[1] >= soft[1]
                    /\ last.value[1] \in {hard[1], soft[1]}
                    /\ last.value[2] <= hard[2] /\ last.value[2] <= soft[2]
                    /\ last.value[2] \in {hard[2], soft[2]}
               [] hard # NoLimit -> last.value = hard
               [] OTHER -> TRUE

\* C13: get_joint_limits never returns a pair of limits for a fixed joint,
\* whether or not the joint carries a limit entry: the call fails, or returns
\* the pair (None, None) by which the code says that limits do not apply.
C13_FixedNotApplicable ==
  (last.op = "get_joint_limits" /\ ValidTree(last.pre)
     /\ last.name \in JointNameSet(last.pre)
     /\ JointNamed(last.pre, last.name).type = "fixed")
    => (last.status # "ok" \/ last.value = NonePair)

-----------------------------------------------------------------------------
(* Claims C14, C15: construction *)

\* the records a call of from_parts describes
Described(parts) == AddAll(AddAll(Robot(parts.robot_name), parts.links), parts.joints)

\* C14: from_parts succeeds exactly for records that satisfy the structural
\* invariants; for records with a name used twice, a joint to a missing link,
\* no root or several roots, or a cycle it fails and yields no tree.
C14_MalformedRejected ==
  (last.op = "from_parts")
    => /\ (last.status = "ok") <=> ValidTree(Described(last.arg))
       /\ (last.status # "ok" => urdf_robot = NoRobot)

\* C15: from_world_body of a primitive body with shape Box, Sphere or Cylinder
\* yields a tree with exactly one link, named after the body, and no joints;
\* with any other shape it fails with TypeError and yields no tree.
C15_PrimitiveBody ==
  (last.op = "from_world_body" /\ last.arg.type = "PRIMITIVE_BODY")
    => IF last.arg.shape.type \in {"BOX", "SPHERE", "CYLINDER"}
       THEN /\ last.status = "ok"
            /\ Len(urdf_robot.links) = 1
            /\ urdf_robot.links[1].name = last.arg.name
            /\ urdf_robot.joints = <<>>
       ELSE /\ last.status = "TypeError"
            /\ urdf_robot = NoRobot

-----------------------------------------------------------------------------
(* Claim C16: collision relevance *)

\* the collision geometry of link l of tree r
CollisionOf(r, l) == (CHOOSE x \in SeqRange(r.links) : x.name = l).collision

\* n times pi exceeds threshold
PiTimesExceeds(n, threshold) == n * PiNum > threshold * PiDen

\* collision relevance of a geometry under the default thresholds, lengths in
\* millimetres
Relevant(geo) ==
  CASE geo.kind = "mesh" -> TRUE
    [] geo.kind = "box" ->
         LET l == geo.args[1].items[1]
             w == geo.args[1].items[2]
             h == geo.args[1].items[3]
         IN l * w * h > volume_threshold \/ 2 * (l*w + l*h + w*h) > surface_threshold
    [] geo.kind = "sphere" ->
         LET x == geo.args[1].items[1] IN PiTimesExceeds(4 * x * x * x, 3 * volume_threshold)
    [] geo.kind = "cylinder" ->
         LET x == geo.args[1].items[1]
             h == geo.args[2].items[1]
         IN PiTimesExceeds(x * x * h, volume_threshold)
              \/ PiTimesExceeds(2 * x * (h + x), surface_threshold)
    [] OTHER -> FALSE

\* C16: has_link_collision with the default thresholds is true exactly for a
\* link whose collision geometry is a mesh, a box whose volume or surface
\* exceeds its threshold, a sphere whose volume exceeds the threshold, or a
\* cylinder whose volume or surface exceeds its threshold; it is false for a
\* link without collision geometry and for a box of 0.001 x 0.001 x 0.001 and
\* true for a box of 1 x 1 x 1.
C16_CollisionRelevant ==
  (last.op = "has_link_collision" /\ NamesUnique(last.pre)
     /\ last.name \in LinkNameSet(last.pre))
    => LET geo == CollisionOf(last.pre, last.name) IN
         /\ last.status = "ok"
         /\ last.value = Relevant(geo)
         /\ (geo = NoGeometry => last.value = FALSE)
         /\ (geo = Box(List(<<1, 1, 1>>)) => last.value = FALSE)
         /\ (geo = Box(List(<<1000, 1000, 1000>>)) => last.value = TRUE)

\* a box that is relevant by its surface alone: 5 x 5 x 5 mm has a volume of
\* 125 cubic millimetres and a surface of 150 square millimetres
C16_Witness ==
  /\ last.op = "has_link_collision" /\ last.status = "ok"
  /\ CollisionOf(last.pre, last.name) = Box(List(<<5, 5, 5>>))
  /\ last.value = TRUE

-----------------------------------------------------------------------------
(* Claim C18: the filter ahead of the parser *)

\* the line that ends the transmission or gazebo element line i of doc opens:
\* line i itself for an element without children and for one that closes on
\* its line, else the next line that closes such an element
SectionEnd(doc, i) ==
  IF doc[i].empty \/ doc[i].closes THEN i
  ELSE LET ends == {k \in (i+1)..Len(doc) : doc[k].tag = doc[i].tag /\ doc[k].closes}
       IN IF ends = {} THEN Len(doc)
          ELSE CHOOSE k \in ends : \A m \in ends : k <= m

\* line i of doc belongs to a transmission or gazebo element
InSection(doc, i) ==
  \E s \in 1..i : /\ doc[s].tag \in black_list
                  /\ doc[s].opens
                  /\ i <= SectionEnd(doc, s)

\* the lines of doc outside every transmission and gazebo element, in order
KeptLines(doc) ==
  LET idx == SelectSeq([i \in 1..Len(doc) |-> i], LAMBDA i : ~InSection(doc, i))
  IN [k \in 1..Len(idx) |-> doc[idx[k]]]

\* C18: the filter drops every line from the line that opens a transmission or
\* gazebo element through the line that closes it and keeps every other line
\* in order, also when the element has no children or opens and closes on one
\* line, so every link defined outside such an element is a link of the tree.
C18_FilterKeepsOutside ==
  (last.op = "__init__")
    => /\ hacky_urdf_parser_fix(last.arg) = KeptLines(last.arg)
       /\ last.status = "ok"
       /\ \A i \in 1..Len(last.arg) :
            (last.arg[i].tag = "link" /\ ~InSection(last.arg, i))
              => last.arg[i].a \in LinkNameSet(urdf_robot)

-----------------------------------------------------------------------------
(* Claim C19: the controllable joints of a chain *)

\* C19: on a valid tree, for tip_link equal to root_link or a descendant of
\* it, get_joint_names_from_chain_controllable returns exactly the joints of
\* the path for which is_joint_controllable is true: only such joints and
\* every one of them.
C19_ChainControllable ==
  (last.op = "get_joint_names_from_chain_controllable" /\ ValidTree(last.pre)
     /\ Reaches(last.pre, last.root_link, last.tip_link))
    => /\ last.status = "ok"
       /\ SeqRange(last.value) =
            { j.name : j \in { x \in SeqRange(PathDown(last.pre, last.root_link, last.tip_link)) :
                                 is_joint_controllable(last.pre, x.name).value } }

-----------------------------------------------------------------------------
(* GiskardWrapper (src/src/giskardpy/python_interface.py) *)

\* largest number of commands, controllers and collision entries that cmd_seq
\* holds together
MaxSize == 5

\* giskard_msgs/MoveCmd()
MoveCmd == [controllers |-> <<>>, collisions |-> <<>>]

\* GiskardWrapper.add_cmd
add_cmd(self) == [self EXCEPT !.cmd_seq = Append(@, MoveCmd)]

\* clear_cmds without its call of add_cmd
clear_cmds_without_add_cmd(self) == [self EXCEPT !.cmd_seq = <<>>]

\* GiskardWrapper.clear_cmds
clear_cmds(self) == add_cmd([self EXCEPT !.cmd_seq = <<>>])

\* GiskardWrapper.__init__: the fields the commands are kept in
GiskardWrapper == clear_cmds([cmd_seq |-> <<>>, collisions |-> <<>>])

\* self.cmd_seq[-1].controllers.append(controller)
append_controller(self, controller) ==
  [self EXCEPT !.cmd_seq[Len(self.cmd_seq)].controllers = Append(@, controller)]

\* GiskardWrapper.set_tranlation_goal
set_tranlation_goal(self) == append_controller(self, "TRANSLATION_3D")

\* GiskardWrapper.set_rotation_goal
set_rotation_goal(self) == append_controller(self, "ROTATION_3D")

\* GiskardWrapper.set_cart_goal
set_cart_goal(self) == set_rotation_goal(set_tranlation_goal(self))

\* GiskardWrapper.set_joint_goal
set_joint_goal(self) == append_controller(self, "JOINT")

\* GiskardWrapper.set_collision_entries
set_collision_entries(self, collisions) ==
  [self EXCEPT !.cmd_seq[Len(self.cmd_seq)].collisions = @ \o collisions]

\* GiskardWrapper.allow_collision
allow_collision(self) == set_collision_entries(self, <<"ALLOW_COLLISION">>)

\* GiskardWrapper.avoid_collision
avoid_collision(self) == set_collision_entries(self, <<"AVOID_COLLISION">>)

\* GiskardWrapper._get_goal: the goal takes the list self.cmd_seq names, then
\* clear_cmds binds self.cmd_seq to a new list
get_goal(self) ==
  [goal |-> [cmd_seq |-> self.cmd_seq, type |-> "PLAN_AND_EXECUTE"],
   self |-> clear_cmds(self)]

RECURSIVE Size(_)
\* the number of commands, controllers and collision entries of a cmd_seq
Size(cmd_seq) ==
  IF cmd_seq = <<>> THEN 0
  ELSE 1 + Len(Head(cmd_seq).controllers) + Len(Head(cmd_seq).collisions) + Size(Tail(cmd_seq))

\* the state after GiskardWrapper()
InitWrapper ==
  /\ giskard = GiskardWrapper
  /\ goal = NoGoal
  /\ entered = {}
  /\ urdf_robot = NoRobot
  /\ last = NoCall
  /\ welded = NoWeld
  /\ pc = "ready"

\* a call that adds count controllers and returns nothing
ControllerCall(self, count) ==
  /\ pc = "ready"
  /\ Size(giskard.cmd_seq) + count <= MaxSize
  /\ giskard' = self
  /\ UNCHANGED <<goal, entered, last, pc>>

SetTranlationGoal == ControllerCall(set_tranlation_goal(giskard), 1)

SetRotationGoal == ControllerCall(set_rotation_goal(giskard), 1)

SetCartGoal == ControllerCall(set_cart_goal(giskard), 2)

SetJointGoal == ControllerCall(set_joint_goal(giskard), 1)

\* a call that adds collision entries and returns nothing
CollisionCall(self, collisions) ==
  /\ pc = "ready"
  /\ Size(giskard.cmd_seq) + Len(collisions) <= MaxSize
  /\ giskard' = self
  /\ entered' = entered \cup {collisions[i] : i \in 1..Len(collisions)}
  /\ UNCHANGED <<goal, last, pc>>

SetCollisionEntries(collisions) ==
  CollisionCall(set_collision_entries(giskard, collisions), collisions)

AllowCollision == CollisionCall(allow_collision(giskard), <<"ALLOW_COLLISION">>)

AvoidCollision == CollisionCall(avoid_collision(giskard), <<"AVOID_COLLISION">>)

AddCmd ==
  /\ pc = "ready"
  /\ Size(giskard.cmd_seq) + 1 <= MaxSize
  /\ giskard' = add_cmd(giskard)
  /\ UNCHANGED <<goal, entered, last, pc>>

ClearCmds ==
  /\ pc = "ready"
  /\ giskard' = clear_cmds(giskard)
  /\ UNCHANGED <<goal, entered, last, pc>>

\* self._get_goal(), as plan_and_execute calls it: the caller gets the goal
GetGoal ==
  /\ pc = "ready"
  /\ LET res == get_goal(giskard) IN
       /\ giskard' = res.self
       /\ goal' = res.goal
       /\ last' = [NoCall EXCEPT !.op = "_get_goal", !.status = "ok",
                                 !.arg = [cmd_seq |-> giskard.cmd_seq, entered |-> entered]]
  /\ entered' = {}
  /\ pc' = "returned"

\* plan_and_execute sends the goal off and the caller goes on
SendGoal ==
  /\ Continue
  /\ goal' = NoGoal
  /\ UNCHANGED <<giskard, entered>>

\* the lists of entries set_collision_entries is called with
CollisionLists == { <<"AVOID_ALL_COLLISIONS">> }

NextWrapper ==
  \/ SetTranlationGoal /\ UNCHANGED <<urdf_robot, welded>>
  \/ SetRotationGoal /\ UNCHANGED <<urdf_robot, welded>>
  \/ SetCartGoal /\ UNCHANGED <<urdf_robot, welded>>
  \/ SetJointGoal /\ UNCHANGED <<urdf_robot, welded>>
  \/ \E collisions \in CollisionLists :
       SetCollisionEntries(collisions) /\ UNCHANGED <<urdf_robot, welded>>
  \/ AllowCollision /\ UNCHANGED <<urdf_robot, welded>>
  \/ AvoidCollision /\ UNCHANGED <<urdf_robot, welded>>
  \/ AddCmd /\ UNCHANGED <<urdf_robot, welded>>
  \/ ClearCmds /\ UNCHANGED <<urdf_robot, welded>>
  \/ GetGoal /\ UNCHANGED <<urdf_robot, welded>>
  \/ SendGoal

SpecWrapper == InitWrapper /\ [][NextWrapper]_vars

-----------------------------------------------------------------------------
(* Claims C17, C20: the commands of the GiskardWrapper *)

\* the collision entries of the commands of a goal
EntriesOf(g) == UNION { SeqRange(g.cmd_seq[i].collisions) : i \in 1..Len(g.cmd_seq) }

\* C17: collision entries set before clear_cmds are left untouched: every
\* entry set since the last goal was built is part of the next goal built.
C17_ClearKeepsCollisions ==
  (last.op = "_get_goal") => last.arg.entered \subseteq EntriesOf(goal)

====
